---- MODULE Spec2Model ----
(***************************************************************************)
(* Thread creation and the kernel-to-user transition of the ARCv2 port     *)
(* (arch/arc/core/thread.c), built with CONFIG_USERSPACE=y,                *)
(* CONFIG_ARC_STACK_CHECKING=n, CONFIG_THREAD_MONITOR=n.                   *)
(*                                                                         *)
(* One thread control block (the thread that becomes _current) is          *)
(* modelled.  _new_thread runs before the thread can be scheduled and is   *)
(* one step.  _arch_user_mode_enter runs on the thread itself and locks no *)
(* interrupts, so each of its stores and calls is a step of its own and an *)
(* interrupt can arrive between any two of them.                           *)
(*                                                                         *)
(* Addresses and sizes are u32_t in the code.  A u32 value v is held as    *)
(* the record [hi |-> v \div 2^16, lo |-> v % 2^16], so that arithmetic    *)
(* wraps at 2^32 exactly as in the code.                                   *)
(***************************************************************************)
EXTENDS Integers, FiniteSets, Sequences, TLC

VARIABLES
    cfg,        \* build configuration: CONFIG_ARC_MPU_VER,
                \* CONFIG_ARC_HAS_SECURE, CONFIG_ASSERT
    pc,         \* where the thread is: uninit, fatal, ready, kernel, user,
                \* or Lnnn: inside _arch_user_mode_enter, about to run line nnn
    thread,     \* struct k_thread (the fields thread.c touches)
    frame,      \* struct init_stack_frame written into the stack buffer
    args,       \* the arguments of the _new_thread call that was made
    mpu,        \* regions the MPU currently enforces
    preempted,  \* an interrupt has switched the thread out
    enters,     \* number of _arch_user_mode_enter calls made
    at_call,    \* the TCB as it was when _arch_user_mode_enter was last called
    user_ctx    \* what _arc_userspace_enter was handed

vars == <<cfg, pc, thread, frame, args, mpu, preempted, enters, at_call, user_ctx>>

----------------------------------------------------------------------------
(* Bounds of the model *)

\* stack sizes requested: 16*4^k and 24*4^k for k in 0..MaxSizeExp
MaxSizeExp == 4
\* number of distinct stack objects tried
NumStacks == 2
\* number of _arch_user_mode_enter calls explored on the thread
MaxEnters == 2

RECURSIVE Pow(_, _)
Pow(b, n) == IF n = 0 THEN 1 ELSE b * Pow(b, n - 1)

StackStride == Pow(2, 15)
Stacks == {k * StackStride : k \in 1..NumStacks}
StackSizes == UNION {{16 * Pow(4, k), 24 * Pow(4, k)} : k \in 0..MaxSizeExp}
Priorities == -2..2
Entries == {"idle", "main"}
UserEntries == {"user_main"}
Params == {<<1, 2, 3>>}

----------------------------------------------------------------------------
(* u32_t arithmetic *)

Half == Pow(2, 16)

\* (u32_t)x for an integer x with -2^31 < x < 2^31
U32(x) == [hi |-> (x \div Half) % Half, lo |-> x % Half]

\* a + b and a - b on u32_t, wrapping at 2^32
Add32(a, b) ==
    LET lo == a.lo + b.lo
    IN  [hi |-> (a.hi + b.hi + lo \div Half) % Half, lo |-> lo % Half]
Sub32(a, b) ==
    LET lo == a.lo - b.lo
    IN  [hi |-> (a.hi - b.hi + lo \div Half) % Half, lo |-> lo % Half]

\* the integer a u32 below 2^31 stands for
Val(a) == a.hi * Half + a.lo

----------------------------------------------------------------------------
(* Constants and macros thread.c takes from headers *)

K_ESSENTIAL == 1
K_USER == 4
OptionSets == {0, K_ESSENTIAL, K_USER, K_USER + K_ESSENTIAL}

CONFIG_PRIVILEGED_STACK_SIZE == 256
STACK_GUARD_SIZE == 32
STACK_ALIGN_SIZE == 4
callee_saved_stack_t_SIZEOF == 64
CONFIG_NUM_COOP_PRIORITIES == 1
CONFIG_NUM_PREEMPT_PRIORITIES == 1

\* options & flag
HasFlag(options, flag) == (options \div flag) % 2 = 1
\* options | flag
SetFlag(options, flag) == IF HasFlag(options, flag) THEN options ELSE options + flag

max(a, b) == IF a > b THEN a ELSE b
\* on a size_t below 2^30, where no step overflows
ROUND_UP(x, a) == ((x + a - 1) \div a) * a
\* on a u32, for an alignment that divides 2^16
ROUND_DOWN(x, a) == [x EXCEPT !.lo = (x.lo \div a) * a]

RECURSIVE Pow2From(_, _)
Pow2From(p, x) == IF p >= x THEN p ELSE Pow2From(2 * p, x)
\* smallest power of two that is >= x
POW2_CEIL(x) == Pow2From(1, x)

\* minimum MPU region: 2048 bytes on MPU v2, 32 bytes on MPU v3
STACK_ALIGN == IF cfg.mpu_ver = 2 THEN 2048 ELSE 32
STACK_SIZE_ALIGN(x) == max(STACK_ALIGN, x)
STACK_ROUND_DOWN(x) == ROUND_DOWN(x, STACK_ALIGN_SIZE)
K_THREAD_STACK_BUFFER(stack) == U32(stack)

\* the idle priority for the idle entry, else the application range
K_IDLE_PRIO == CONFIG_NUM_PREEMPT_PRIORITIES
_VALID_PRIO(priority, pEntry) ==
    \/ priority = K_IDLE_PRIO /\ pEntry = "idle"
    \/ priority >= -CONFIG_NUM_COOP_PRIORITIES
       /\ priority <= CONFIG_NUM_PREEMPT_PRIORITIES - 1

\* _ASSERT_VALID_PRIO passes: an __ASSERT, compiled out without CONFIG_ASSERT
AssertValidPrioPasses(priority, pEntry) ==
    cfg.assert => _VALID_PRIO(priority, pEntry)

\* struct init_stack_frame: pc, [sec_stat,] status32, r3, r2, r1, r0
sizeof_init_stack_frame == IF cfg.secure THEN 28 ELSE 24

NoFrame == [addr |-> U32(0), pc |-> "none", sec_stat |-> "none",
            status32 |-> {}, r0 |-> "none", r1 |-> 0, r2 |-> 0, r3 |-> 0]

\* a k_thread in zeroed storage
ZeroThread ==
    [stack_info |-> [start |-> U32(0), size |-> U32(0)],
     user_options |-> 0, prio |-> 0,
     priv_stack_start |-> U32(0), priv_stack_size |-> U32(0),
     sp |-> U32(0), intlock_key |-> 0, relinquish_cause |-> "none",
     stack_obj |-> U32(0)]

NoArgs == [stack |-> 0, stackSize |-> 0, pEntry |-> "none", priority |-> 0,
           options |-> 0]
NoRegions == [owner |-> "none", start |-> U32(0), size |-> U32(0),
              priv_start |-> U32(0), priv_size |-> U32(0)]
NoUserCtx == [entry |-> "none", stack |-> U32(0), size |-> U32(0)]

\* _new_thread_init: records the stack region, the priority and the options
_new_thread_init(t, stackMem, stackSize, priority, options) ==
    [t EXCEPT !.stack_info = [start |-> stackMem, size |-> stackSize],
              !.prio = priority,
              !.user_options = options]

----------------------------------------------------------------------------
(* _new_thread *)

\* stackSize after the MPU rounding
RoundedSize(stackSize) ==
    IF cfg.mpu_ver = 2
    THEN U32(POW2_CEIL(STACK_SIZE_ALIGN(stackSize)))
    ELSE U32(ROUND_UP(stackSize, STACK_ALIGN))

\* the guard below a kernel thread's stack is not skipped
pStackMem_no_guard(stack, options) == K_THREAD_STACK_BUFFER(stack)

\* pStackMem as handed to _new_thread_init
pStackMem(stack, options) ==
    IF ~HasFlag(options, K_USER)
    THEN Add32(K_THREAD_STACK_BUFFER(stack), U32(STACK_GUARD_SIZE))
    ELSE K_THREAD_STACK_BUFFER(stack)

\* the allowance is added whatever the options say
ThreadStackSize_always_merged(stackSize, options) ==
    Add32(RoundedSize(stackSize), U32(CONFIG_PRIVILEGED_STACK_SIZE))

\* stackSize as handed to _new_thread_init
ThreadStackSize(stackSize, options) ==
    IF ~HasFlag(options, K_USER)
    THEN Add32(RoundedSize(stackSize), U32(CONFIG_PRIVILEGED_STACK_SIZE))
    ELSE RoundedSize(stackSize)

stackEnd(stack, stackSize, options) ==
    LET e == Add32(K_THREAD_STACK_BUFFER(stack), RoundedSize(stackSize))
    IN  IF ~HasFlag(options, K_USER)
        THEN Add32(e, U32(CONFIG_PRIVILEGED_STACK_SIZE + STACK_GUARD_SIZE))
        ELSE e

pInitCtx(stack, stackSize, options) ==
    Sub32(STACK_ROUND_DOWN(stackEnd(stack, stackSize, options)),
          U32(sizeof_init_stack_frame))

InitFrame(stack, stackSize, pEntry, p1, p2, p3, options) ==
    [addr |-> pInitCtx(stack, stackSize, options),
     pc |-> IF HasFlag(options, K_USER)
            THEN "_user_thread_entry_wrapper"
            ELSE "_thread_entry_wrapper",
     sec_stat |-> IF cfg.secure THEN "SEC_STAT" ELSE "none",
     status32 |-> {"E_DEF_IRQ_LEVEL", "US"},
     r0 |-> pEntry, r1 |-> p1, r2 |-> p2, r3 |-> p3]

\* the privileged stack is recorded whatever the options say
PrivStack_always(stack, stackSize, options) ==
    [start |-> Add32(stackEnd(stack, stackSize, options), U32(STACK_GUARD_SIZE)),
     size |-> U32(CONFIG_PRIVILEGED_STACK_SIZE)]

\* lines 150-158
PrivStack(stack, stackSize, options) ==
    IF HasFlag(options, K_USER)
    THEN [start |-> Add32(stackEnd(stack, stackSize, options),
                          U32(STACK_GUARD_SIZE)),
          size |-> U32(CONFIG_PRIVILEGED_STACK_SIZE)]
    ELSE [start |-> U32(0), size |-> U32(0)]

\* every write _new_thread makes to the TCB
NewThreadTcb(t, stack, stackSize, priority, options) ==
    LET t1 == _new_thread_init(t, pStackMem(stack, options),
                               ThreadStackSize(stackSize, options),
                               priority, options)
        ps == PrivStack(stack, stackSize, options)
    IN  [t1 EXCEPT !.priv_stack_start = ps.start,
                   !.priv_stack_size = ps.size,
                   !.intlock_key = 63,
                   !.relinquish_cause = "_CAUSE_COOP",
                   !.sp = Sub32(pInitCtx(stack, stackSize, options),
                                U32(callee_saved_stack_t_SIZEOF))]

_new_thread(t, f, stack, stackSize, pEntry, p1, p2, p3, priority, options) ==
    IF ~AssertValidPrioPasses(priority, pEntry)
    THEN [fatal |-> TRUE, thread |-> t, frame |-> f]
    ELSE [fatal |-> FALSE,
          thread |-> NewThreadTcb(t, stack, stackSize, priority, options),
          frame |-> InitFrame(stack, stackSize, pEntry, p1, p2, p3, options)]

----------------------------------------------------------------------------
(* collaborators *)

\* the regions the MPU driver programs for a thread
configure_mpu_thread(t) ==
    [owner |-> "current",
     start |-> t.stack_info.start, size |-> t.stack_info.size,
     priv_start |-> t.priv_stack_start, priv_size |-> t.priv_stack_size]

OtherRegions == [owner |-> "other", start |-> U32(0), size |-> U32(0),
                 priv_start |-> U32(0), priv_size |-> U32(0)]

----------------------------------------------------------------------------
(* _arch_user_mode_enter: the stores to _current, one per statement *)

\* user_options ^= K_USER instead of |=
SetUserOption_toggle(t) ==
    [t EXCEPT !.user_options = IF HasFlag(t.user_options, K_USER)
                               THEN t.user_options - K_USER
                               ELSE t.user_options + K_USER]

\* line 191
SetUserOption(t) ==
    [t EXCEPT !.user_options = SetFlag(t.user_options, K_USER)]

\* stack_info.start is left where the kernel thread had it
SetStackStart_kept(t) == t

\* line 203
SetStackStart(t) == [t EXCEPT !.stack_info.start = t.stack_obj]

\* line 204
ShrinkStackSize(t) ==
    [t EXCEPT !.stack_info.size =
                  Sub32(t.stack_info.size, U32(CONFIG_PRIVILEGED_STACK_SIZE))]

\* lines 206-208
SetPrivStackStart(t) ==
    [t EXCEPT !.priv_stack_start =
                  Add32(Add32(t.stack_info.start, t.stack_info.size),
                        U32(STACK_GUARD_SIZE))]

\* lines 209-210
SetPrivStackSize(t) ==
    [t EXCEPT !.priv_stack_size = U32(CONFIG_PRIVILEGED_STACK_SIZE)]

----------------------------------------------------------------------------
(* Actions *)

Init ==
    /\ cfg \in [mpu_ver : {2, 3}, secure : BOOLEAN, assert : BOOLEAN]
    /\ pc = "uninit"
    /\ thread = ZeroThread
    /\ frame = NoFrame
    /\ args = NoArgs
    /\ mpu = NoRegions
    /\ preempted = FALSE
    /\ enters = 0
    /\ at_call = ZeroThread
    /\ user_ctx = NoUserCtx

\* _setup_new_thread: calls _new_thread, then records the stack object
SetupNewThread ==
    /\ pc = "uninit"
    /\ \E stack \in Stacks, stackSize \in StackSizes, pEntry \in Entries,
          p \in Params, priority \in Priorities, options \in OptionSets :
         LET r == _new_thread(thread, frame, stack, stackSize, pEntry,
                              p[1], p[2], p[3], priority, options)
         IN  /\ args' = [stack |-> stack, stackSize |-> stackSize,
                         pEntry |-> pEntry, priority |-> priority,
                         options |-> options]
             /\ frame' = r.frame
             /\ IF r.fatal
                THEN /\ pc' = "fatal"
                     /\ thread' = r.thread
                ELSE /\ pc' = "ready"
                     /\ thread' = [r.thread EXCEPT !.stack_obj = U32(stack)]
    /\ UNCHANGED <<cfg, mpu, preempted, enters, at_call, user_ctx>>

\* first context switch into the thread: the frame's trampoline decides the
\* privilege it starts with, the MPU is loaded from its TCB
FirstSwitch ==
    /\ pc = "ready"
    /\ pc' = IF frame.pc = "_user_thread_entry_wrapper" THEN "user" ELSE "kernel"
    /\ mpu' = configure_mpu_thread(thread)
    /\ UNCHANGED <<cfg, thread, frame, args, preempted, enters, at_call, user_ctx>>

\* a store of _arch_user_mode_enter: from position `from` to position `to`
EnterStore(from, to, t) ==
    /\ pc = from
    /\ ~preempted
    /\ thread' = t
    /\ pc' = to
    /\ UNCHANGED <<cfg, frame, args, mpu, preempted, enters, at_call, user_ctx>>

\* the call, and line 191; nothing in the function tests the caller
UserModeEnter ==
    /\ pc \in {"kernel", "user"}
    /\ ~preempted
    /\ enters < MaxEnters
    /\ \E user_entry \in UserEntries :
         user_ctx' = [user_ctx EXCEPT !.entry = user_entry]
    /\ at_call' = thread
    /\ thread' = SetUserOption(thread)
    /\ enters' = enters + 1
    /\ pc' = "L203"
    /\ UNCHANGED <<cfg, frame, args, mpu, preempted>>

EnterSetStackStart == EnterStore("L203", "L204", SetStackStart(thread))
EnterShrinkStackSize == EnterStore("L204", "L206", ShrinkStackSize(thread))
EnterSetPrivStackStart == EnterStore("L206", "L209", SetPrivStackStart(thread))
EnterSetPrivStackSize == EnterStore("L209", "L214", SetPrivStackSize(thread))

\* the MPU is left as it was
ConfigureMpu_skipped ==
    /\ pc = "L214"
    /\ ~preempted
    /\ pc' = "L216"
    /\ UNCHANGED <<cfg, thread, frame, args, mpu, preempted, enters, at_call, user_ctx>>

\* line 214
ConfigureMpu ==
    /\ pc = "L214"
    /\ ~preempted
    /\ mpu' = configure_mpu_thread(thread)
    /\ pc' = "L216"
    /\ UNCHANGED <<cfg, thread, frame, args, preempted, enters, at_call, user_ctx>>

\* lines 216-218
UserspaceEnter ==
    /\ pc = "L216"
    /\ ~preempted
    /\ user_ctx' = [user_ctx EXCEPT !.stack = thread.stack_obj,
                                    !.size = thread.stack_info.size]
    /\ pc' = "user"
    /\ UNCHANGED <<cfg, thread, frame, args, mpu, preempted, enters, at_call>>

EnterPositions == {"L203", "L204", "L206", "L209", "L214", "L216"}

\* an interrupt switches to another thread; interrupts are never locked by
\* thread.c, so this can happen at any position of the running thread
Preempt ==
    /\ pc \in {"kernel", "user"} \cup EnterPositions
    /\ ~preempted
    /\ preempted' = TRUE
    /\ mpu' = OtherRegions
    /\ UNCHANGED <<cfg, pc, thread, frame, args, enters, at_call, user_ctx>>

\* the thread is switched back in; the MPU is reloaded from its TCB
SwitchBack ==
    /\ preempted
    /\ preempted' = FALSE
    /\ mpu' = configure_mpu_thread(thread)
    /\ UNCHANGED <<cfg, pc, thread, frame, args, enters, at_call, user_ctx>>

Next ==
    \/ SetupNewThread
    \/ FirstSwitch
    \/ UserModeEnter
    \/ EnterSetStackStart
    \/ EnterShrinkStackSize
    \/ EnterSetPrivStackStart
    \/ EnterSetPrivStackSize
    \/ ConfigureMpu
    \/ UserspaceEnter
    \/ Preempt
    \/ SwitchBack

Spec == Init /\ [][Next]_vars

----------------------------------------------------------------------------
(* Properties *)

Created == pc \notin {"uninit", "fatal"}
IsUser(t) == HasFlag(t.user_options, K_USER)
\* the thread was created with a priority that is valid for its entry
ValidCall == _VALID_PRIO(args.priority, args.pEntry)
\* positions inside lines 191-210, where the TCB is being rewritten
MidUpdate == pc \in {"L203", "L204", "L206", "L209"}

PrivPopulated(t) ==
    /\ t.priv_stack_start # U32(0)
    /\ t.priv_stack_size = U32(CONFIG_PRIVILEGED_STACK_SIZE)
PrivZero(t) == t.priv_stack_start = U32(0) /\ t.priv_stack_size = U32(0)

\* the rounding of a request, stated without the model's rounding operators
IsPow2(n) == \E k \in 0..30 : n = Pow(2, k)
IsRounded(r, s) ==
    IF cfg.mpu_ver = 2
    THEN /\ IsPow2(r)
         /\ r >= s /\ r >= 2048
         /\ (r = 2048 \/ r < 2 * s)
    ELSE /\ r % 32 = 0
         /\ r >= s /\ r - s < 32

\* the three regions of the stack object as _new_thread leaves them, as
\* integers (every address of a newly created thread is far below 2^31)
UsableRegion == [start |-> Val(thread.stack_info.start),
                 size |-> Val(thread.stack_info.size)]
PrivRegion == [start |-> Val(thread.priv_stack_start),
               size |-> Val(thread.priv_stack_size)]
GuardRegion ==
    IF IsUser(thread)
    THEN [start |-> UsableRegion.start + UsableRegion.size,
          size |-> STACK_GUARD_SIZE]
    ELSE [start |-> Val(thread.stack_obj), size |-> STACK_GUARD_SIZE]
End(r) == r.start + r.size
Disjoint(a, b) ==
    a.size = 0 \/ b.size = 0 \/ End(a) <= b.start \/ End(b) <= a.start
RegionsLaidOut ==
    /\ Disjoint(GuardRegion, UsableRegion)
    /\ Disjoint(GuardRegion, PrivRegion)
    /\ Disjoint(UsableRegion, PrivRegion)
    /\ IF IsUser(thread)
       THEN /\ UsableRegion.start = args.stack
            /\ End(UsableRegion) = GuardRegion.start
            /\ End(GuardRegion) = PrivRegion.start
       ELSE /\ GuardRegion.start = args.stack
            /\ End(GuardRegion) = UsableRegion.start
            /\ PrivRegion.size = 0
Extent ==
    max(max(End(GuardRegion), End(UsableRegion)),
        max(IF PrivRegion.size = 0 THEN 0 ELSE End(PrivRegion),
            Val(stackEnd(args.stack, args.stackSize, args.options))))
Rounded == Val(RoundedSize(args.stackSize))

\* C1 (as claimed): a call of _arch_user_mode_enter by a thread that already
\* has K_USER is rejected and leaves stack_info and the privileged stack as
\* they were.
C1_SecondEnterRejected ==
    (ValidCall /\ enters > 0 /\ IsUser(at_call))
        => /\ thread.stack_info = at_call.stack_info
           /\ thread.priv_stack_start = at_call.priv_stack_start
           /\ thread.priv_stack_size = at_call.priv_stack_size

\* C2 (as claimed): the thread is never interrupted between
\* configure_mpu_thread and _arc_userspace_enter.
C2_NoInterruptInWindow == ~(preempted /\ pc = "L216")

\* C3: in _arch_user_mode_enter the TCB is re-partitioned first, the MPU is
\* then programmed from that TCB, and the thread is unprivileged only with
\* the MPU holding the regions of its current TCB.
C3_MpuBeforeDowngrade ==
    /\ pc \in {"L214", "L216"}
          => /\ IsUser(thread)
             /\ PrivPopulated(thread)
             /\ thread.stack_info.start = thread.stack_obj
             /\ thread.stack_info.size
                  = Sub32(at_call.stack_info.size,
                          U32(CONFIG_PRIVILEGED_STACK_SIZE))
    /\ (pc \in {"L216", "user"} /\ ~preempted)
          => mpu = configure_mpu_thread(thread)
    /\ (pc = "user" /\ enters > 0)
          => /\ user_ctx.stack = thread.stack_info.start
             /\ user_ctx.size = thread.stack_info.size

C3_Witness ==
    /\ pc = "user" /\ enters = 1 /\ ~preempted
    /\ ~HasFlag(args.options, K_USER)
    /\ mpu.size = user_ctx.size
    /\ mpu.size # at_call.stack_info.size
    /\ mpu.priv_size = U32(CONFIG_PRIVILEGED_STACK_SIZE)

\* C4: once a created thread has K_USER it keeps it, and the only step that
\* gives K_USER to a created kernel thread is the entry of
\* _arch_user_mode_enter.
C4_UserIsTerminal ==
    [][/\ (Created /\ IsUser(thread)) => IsUser(thread')
       /\ (Created /\ ~IsUser(thread) /\ IsUser(thread'))
             => (pc = "kernel" /\ pc' = "L203" /\ enters' = enters + 1)]_vars

C4_Witness ==
    /\ enters = 2 /\ pc = "user" /\ IsUser(thread)
    /\ ~HasFlag(args.options, K_USER)

\* C5 (as claimed): in every reachable state of a created thread the
\* privileged stack is populated exactly when the thread has K_USER, and
\* zero exactly when it has not.
C5_PrivStackIffUserAlways ==
    (Created /\ ValidCall)
        => /\ IsUser(thread) => PrivPopulated(thread)
           /\ ~IsUser(thread) => PrivZero(thread)

\* C5 (amended): the same, in every state of a created thread other than
\* those inside lines 191-210 of _arch_user_mode_enter.
C5_PrivStackIffUser ==
    (Created /\ ~MidUpdate)
        => /\ IsUser(thread) => PrivPopulated(thread)
           /\ ~IsUser(thread) => PrivZero(thread)

C5_Witness ==
    /\ pc = "L214" /\ enters = 1
    /\ ~HasFlag(args.options, K_USER)
    /\ IsUser(thread) /\ PrivPopulated(thread)

\* C6 (as claimed): at creation the guard, privileged and usable regions are
\* disjoint and contiguous, and nothing up to the stack top lies past
\* buffer_base + rounded size.
C6_WithinRoundedSize ==
    (pc = "ready" /\ ValidCall) =>
        /\ RegionsLaidOut
        /\ Extent <= args.stack + Rounded

\* C6 (amended): at creation the guard, privileged and usable regions are
\* disjoint and contiguous, and nothing up to the stack top lies past
\* buffer_base + rounded size + guard + privileged-stack allowance.
C6_WithinStackObject ==
    pc = "ready" =>
        /\ RegionsLaidOut
        /\ IsRounded(Rounded, args.stackSize)
        /\ Extent <= args.stack + Rounded
                       + STACK_GUARD_SIZE + CONFIG_PRIVILEGED_STACK_SIZE

C6_Witness ==
    /\ pc = "ready" /\ ~IsUser(thread)
    /\ UsableRegion.start = args.stack + STACK_GUARD_SIZE
    /\ End(UsableRegion) = args.stack + Rounded
                             + STACK_GUARD_SIZE + CONFIG_PRIVILEGED_STACK_SIZE

\* C7 (as claimed): a user thread's region is the rounded size less the
\* privileged-stack allowance and the guard.
C7_UserRegionCarvedOut ==
    (pc = "ready" /\ ValidCall /\ IsUser(thread)) =>
        UsableRegion.size =
            Rounded - CONFIG_PRIVILEGED_STACK_SIZE - STACK_GUARD_SIZE

\* C7 (amended): a user thread's region is the whole rounded size; the guard
\* and then the privileged-stack allowance follow it; a request of 1024 with
\* power-of-two rounding gives a user region of 2048, a guard of 32 and a
\* privileged region of 256.
C7_UserRegionIsRoundedSize ==
    (pc = "ready" /\ IsUser(thread)) =>
        /\ IsRounded(UsableRegion.size, args.stackSize)
        /\ UsableRegion.start = args.stack
        /\ PrivRegion.start
             = args.stack + UsableRegion.size + STACK_GUARD_SIZE
        /\ PrivRegion.size = CONFIG_PRIVILEGED_STACK_SIZE
        /\ (cfg.mpu_ver = 2 /\ args.stackSize = 1024)
              => /\ UsableRegion.size = 2048
                 /\ PrivRegion.start - End(UsableRegion) = 32
                 /\ PrivRegion.size = 256

C7_Witness ==
    /\ pc = "ready" /\ IsUser(thread)
    /\ cfg.mpu_ver = 2 /\ args.stackSize = 1024
    /\ UsableRegion.size = 2048

\* C8 (as claimed): a priority that is not valid for the entry point is
\* fatal and leaves the TCB and the stack buffer as they were.
C8_InvalidPrioWritesNothing ==
    (pc # "uninit" /\ ~_VALID_PRIO(args.priority, args.pEntry))
        => /\ pc = "fatal"
           /\ thread = ZeroThread
           /\ frame = NoFrame

\* C9 (as claimed): in every successful creation the register frame and the
\* callee-saved area below it lie inside the thread's stack region and never
\* below buffer_base.
C9_FrameInsideStack ==
    (pc = "ready" /\ ValidCall) =>
        /\ Val(thread.sp) >= UsableRegion.start
        /\ Val(thread.sp) >= args.stack
        /\ Val(frame.addr) >= UsableRegion.start
        /\ Val(frame.addr) + sizeof_init_stack_frame <= End(UsableRegion)

\* C10: a kernel thread that has entered user mode once has the stack_info
\* and the privileged stack of a thread created with K_USER on the same
\* stack and size, and its privileged stack ends at the stack top computed
\* when it was created.
C10_RoutesAgree ==
    (Created /\ enters = 1 /\ ~MidUpdate /\ ~HasFlag(args.options, K_USER)) =>
        LET direct == NewThreadTcb(ZeroThread, args.stack, args.stackSize,
                                   args.priority, SetFlag(args.options, K_USER))
        IN  /\ thread.stack_info = direct.stack_info
            /\ thread.priv_stack_start = direct.priv_stack_start
            /\ thread.priv_stack_size = direct.priv_stack_size
            /\ Add32(thread.priv_stack_start, thread.priv_stack_size)
                 = stackEnd(args.stack, args.stackSize, args.options)

C10_Witness ==
    /\ pc = "L216" /\ enters = 1 /\ ~HasFlag(args.options, K_USER)
    /\ thread.stack_info.start = U32(args.stack)
    /\ Add32(thread.priv_stack_start, thread.priv_stack_size)
         = stackEnd(args.stack, args.stackSize, args.options)

====
